---- MODULE Spec2Model ----
(***************************************************************************)
(* The phase/timer state machine of the Focus Timer Chrome extension       *)
(* (chrome/src/background.js).                                             *)
(*                                                                         *)
(* The service worker is event driven.  Every listener is an async         *)
(* function: it runs synchronously up to a call of a chrome.* API, the     *)
(* call takes effect in the browser, and the listener continues in a       *)
(* later task.  Other listeners may run between two such points.  One      *)
(* step of a handler below is "the synchronous code up to the next         *)
(* chrome.* call, and that call's effect".  Calls that only touch the      *)
(* badge, the title or the popup (updateActionUI, the stateChanged push)   *)
(* change nothing the state machine reads; they are part of the step that  *)
(* follows them.                                                           *)
(*                                                                         *)
(* Spec lets up to MaxInFlight handlers interleave at their await points.  *)
(* SerialSpec starts a handler only when no other handler is executing     *)
(* (section 5 of the specification: "at-most-one operation executes at     *)
(* once").  FairSpec is SerialSpec with fair scheduling.                   *)
(*                                                                         *)
(* IosSpec is the iOS port of the same state machine (the TimerViewModel   *)
(* of ios/FocusTimer/FocusTimer/ContentView.swift), whose functions run    *)
(* one at a time on the main actor.  The two programs share the clock      *)
(* only: each specification leaves the other program's variables alone.    *)
(***************************************************************************)
EXTENDS Integers, Sequences, FiniteSets, TLC

\* ------------------------------------------------------------- bounds
TickMs == 500
MaxTicks == 2
MaxSleeps == 1
MaxDur == 2
MaxInFlight == 2
MaxAlarmEvents == 1
MaxOverlaps == 2
MaxOwed == 2
MaxMinutes == 2

\* -------------------------------------------------- program constants
MsPerSecond == 1000
HeartbeatPeriodMs == 60000
DefaultDurationSeconds == 60
MsPerMinute == 60000

\* STORAGE_KEYS: its CONFIG and STATE entries
KEY_CONFIG == "config"
KEY_STATE == "state"

PHASES == [IDLE |-> "idle", RUNNING_A |-> "runningA",
           WAITING_A |-> "waitingForAConfirm", RUNNING_B |-> "runningB"]

ALARM_ID == "phaseEnd"
HEARTBEAT_ALARM_ID == "heartbeat"

\* null / undefined / "no such alarm": the empty tuple; a value v is <<v>>.
Null == <<>>
Some(v) == <<v>>

\* A duration is <<n>> for the finite number n and Null for anything else
\* (NaN, Infinity, a string, a missing field).
DEFAULT_CONFIG == [durationASeconds |-> Some(DefaultDurationSeconds),
                   durationBSeconds |-> Some(DefaultDurationSeconds)]

\* (a slip: the defaults carry the phase that waits for the confirmation)
DefaultStateWaiting == [phase |-> PHASES.WAITING_A, endTimestamp |-> Null,
                        paused |-> FALSE, remainingSeconds |-> Null]

DEFAULT_STATE == [phase |-> PHASES.IDLE, endTimestamp |-> Null,
                  paused |-> FALSE, remainingSeconds |-> Null]

\* ---- iOS (ContentView.swift)
\* enum Phase
Phase == [idle |-> "idle", runningFocus |-> "runningFocus",
          waitingForConfirm |-> "waitingForConfirm",
          runningBreak |-> "runningBreak",
          pausedFocus |-> "pausedFocus", pausedBreak |-> "pausedBreak"]

\* Config(): var focusMinutes: Int = 25, var breakMinutes: Int = 5
NewConfig == [focusMinutes |-> 25, breakMinutes |-> 5]

\* State(): phase .idle, endDate nil, remainingSeconds nil.  A Date and a
\* TimeInterval have fractions of a second: both are kept in milliseconds.
NewState == [phase |-> Phase.idle, endDate |-> Null, remainingSeconds |-> Null]

\* No request is pending and nothing has been delivered
NoNotifications == [pending |-> Null, delivered |-> Null]

VARIABLES
  now,          \* Date.now(), in milliseconds
  stored,       \* chrome.storage.local: key -> Null (undefined) or <<value>>
  alarms,       \* chrome.alarms: name -> Null or <<time of the next firing>>
  alarmEvents,  \* phaseEnd onAlarm events fired by the browser, not yet handled
  handlers,     \* the listeners in flight: slot -> activation record
  owed,         \* per phase: completions that changed the stored phase, minus
                \* notifications requested (-1: more notifications than
                \* completions; at most MaxOwed)
  noteShown,    \* a "Focus Timer complete" notification (with its button) is up
  serialized,   \* the host runs one listener at a time (never changes)
  overlaps,     \* listeners started so far while another one was running
  history,      \* the operation that last wrote TimerState, and the pause
                \* a 'resume' undoes (kept where one listener runs at a time)
  viewModel,    \* iOS: the TimerViewModel in memory, [config, state]
  defaults,     \* iOS: UserDefaults.standard, key -> Null or <<value>>
  center        \* iOS: UNUserNotificationCenter, the pending request and
                \* the notification delivered last

\* The variables of the iOS app; the browser extension never touches them.
ios == <<viewModel, defaults, center>>

\* The variables of the browser extension but the clock; the iOS app never
\* touches them.
chrome == <<stored, alarms, alarmEvents, handlers, owed, noteShown,
            serialized, overlaps, history>>

vars == <<now, stored, alarms, alarmEvents, handlers, owed, noteShown,
          serialized, overlaps, history, viewModel, defaults, center>>

Slots == 1..MaxInFlight

\* ------------------------------------------------------ pure helpers

\* JavaScript truthiness of a number-or-null field (state.endTimestamp && ...)
Truthy(x) == x # Null /\ x[1] # 0

\* state.paused, where the field may be missing (undefined is falsy)
IsPaused(state) == IF "paused" \in DOMAIN state THEN state.paused ELSE FALSE

\* state.remainingSeconds, where the field may be missing
RemainingOf(state) ==
  IF "remainingSeconds" \in DOMAIN state THEN state.remainingSeconds ELSE Null

IsRunning(state) ==
  state.phase = PHASES.RUNNING_A \/ state.phase = PHASES.RUNNING_B

\* Math.ceil(a / b) for b > 0
CeilDiv(a, b) == -((-a) \div b)

Max(a, b) == IF a >= b THEN a ELSE b

Min(a, b) == IF a <= b THEN a ELSE b

\* getStored(key, fallback)
getStored(key, fallback) ==
  IF stored[key] = Null THEN fallback ELSE stored[key][1]

\* (a slip: the stored config is ignored)
getConfigDefaults == DEFAULT_CONFIG

getConfig == getStored(KEY_CONFIG, DEFAULT_CONFIG)

getState == getStored(KEY_STATE, DEFAULT_STATE)

\* (a slip: the seconds are added to the milliseconds unconverted)
EndTimestampInSeconds(t, durationSeconds) == t + durationSeconds

\* startPhase: const endTimestamp = nowMs() + durationSeconds * 1000
EndTimestampFor(t, durationSeconds) == t + durationSeconds * MsPerSecond

\* startPhase: the state it writes
RunningState(phase, endTimestamp) ==
  [phase |-> phase, endTimestamp |-> Some(endTimestamp),
   paused |-> FALSE, remainingSeconds |-> Null]

\* transitionToWaiting: { phase, endTimestamp: null } and no other field
WaitingState(phase) == [phase |-> phase, endTimestamp |-> Null]

\* (a slip: only a running phase counts, WaitingConfirm does not)
AlreadyRunningOnlyInPhase(state) == IsRunning(state)

\* (a slip: a paused phase does not count as running)
AlreadyRunningUnlessPaused(state) ==
  state.phase # PHASES.IDLE /\ ~IsPaused(state)

\* the 'start' branch: if (state.phase !== PHASES.IDLE) "Timer already running."
AlreadyRunning(state) == state.phase # PHASES.IDLE

\* (a slip: an acknowledge in Idle is taken as well)
AwaitingConfirmOrIdle(state) ==
  state.phase \in {PHASES.WAITING_A, PHASES.IDLE}

\* (a slip: a break that is running can be confirmed again)
AwaitingConfirmOrBreak(state) ==
  state.phase \in {PHASES.WAITING_A, PHASES.RUNNING_B}

\* the 'ackA' branch and the button listener: state.phase === PHASES.WAITING_A
AwaitingConfirm(state) == state.phase = PHASES.WAITING_A

\* (a slip: only the focus duration is validated)
ValidFocusDuration(config) ==
  /\ config # Null
  /\ config[1].durationASeconds # Null
  /\ ~(config[1].durationASeconds[1] < 1)

\* the 'start' branch: the validation of message.config
\* (message.config is Null when the message carries none)
ValidConfig(config) ==
  /\ config # Null
  /\ config[1].durationASeconds # Null
  /\ config[1].durationBSeconds # Null
  /\ ~(config[1].durationASeconds[1] < 1)
  /\ ~(config[1].durationBSeconds[1] < 1)

\* the 'pause' branch: its guard
PauseGuard(state) ==
  /\ IsRunning(state)
  /\ Truthy(state.endTimestamp)
  /\ ~IsPaused(state)

\* (a slip: the remaining time is not clamped to one second)
RemainingUnclamped(endTimestamp, t) == CeilDiv(endTimestamp - t, MsPerSecond)

\* the 'pause' branch: Math.max(1, Math.ceil((state.endTimestamp - nowMs()) / 1000))
RemainingAtPause(endTimestamp, t) ==
  Max(1, CeilDiv(endTimestamp - t, MsPerSecond))

\* (a slip: the pause keeps the endTimestamp it read)
PausedStateKeepingEnd(state, remainingSeconds) ==
  [phase |-> state.phase, endTimestamp |-> state.endTimestamp,
   paused |-> TRUE, remainingSeconds |-> Some(remainingSeconds)]

\* the 'pause' branch: { ...state, paused: true, remainingSeconds, endTimestamp: null }
PausedState(state, remainingSeconds) ==
  [phase |-> state.phase, endTimestamp |-> Null,
   paused |-> TRUE, remainingSeconds |-> Some(remainingSeconds)]

\* the 'resume' branch: its guard
ResumeGuard(state) ==
  /\ IsPaused(state)
  /\ IsRunning(state)
  /\ Truthy(RemainingOf(state))

\* the 'resume' branch: { ...state, paused: false, endTimestamp, remainingSeconds: null }
ResumedState(state, endTimestamp) ==
  [phase |-> state.phase, endTimestamp |-> Some(endTimestamp),
   paused |-> FALSE, remainingSeconds |-> Null]

\* handleAlarm / initialize: state.endTimestamp && nowMs() >= state.endTimestamp
EndPassed(state, t) ==
  Truthy(state.endTimestamp) /\ t >= state.endTimestamp[1]

\* ------------------------------------------------ activation records

\* What the world looked like when a handler was started (history, for the
\* properties only; no handler reads it).
Snapshot == [state |-> stored[KEY_STATE],
             config |-> stored[KEY_CONFIG],
             phaseEnd |-> alarms[ALARM_ID],
             heartbeat |-> alarms[HEARTBEAT_ALARM_ID],
             alarmEvents |-> alarmEvents,
             \* a phase was running, unpaused, with its end time passed
             due |-> (IsRunning(getState) /\ ~IsPaused(getState)
                      /\ EndPassed(getState, now)),
             \* the operation that wrote that TimerState
             writer |-> history.writer]

NoSnapshot == [state |-> Null, config |-> Null, phaseEnd |-> Null,
               heartbeat |-> Null, alarmEvents |-> 0, due |-> FALSE,
               writer |-> "none"]

NoHistory == [writer |-> "none", pause |-> Null]

Free == [kind |-> "none", pc |-> "free",
         state |-> DEFAULT_STATE,    \* const state = await getState()
         config |-> Null,            \* message.config / rawConfig
         phase |-> PHASES.IDLE,      \* the phase argument of startPhase / notify
         seconds |-> 0,              \* durationSeconds / remainingSeconds
         existing |-> FALSE,         \* ensureHeartbeatAlarm: existing
         endTimestamp |-> 0,         \* const endTimestamp
         response |-> "none",        \* sendResponse: "ok", or the error
         notified |-> "none",        \* notifications.create: "shown" | "failed"
         wrote |-> FALSE,            \* the handler wrote TimerState (history)
         at |-> 0,                   \* the nowMs() it computed with (history)
         pre |-> NoSnapshot]         \* the world at its start (history)

Executing(h) == handlers[h].pc \notin {"free", "done"}

NoneExecuting == \A h \in Slots : ~Executing(h)

\* No finished listener is waiting for its record to be dropped.
Quiet == \A h \in Slots : handlers[h].pc # "done"

\* The slot a new handler takes: the lowest one that is not executing.
HasSlot == \E h \in Slots : ~Executing(h)

NewSlot ==
  CHOOSE h \in Slots : ~Executing(h) /\ \A g \in Slots : g < h => Executing(g)

\* The listeners in flight, in the order they were started
InFlight(recs) ==
  LET live == SelectSeq(recs, LAMBDA rec : rec.pc # "free") IN
  [h \in Slots |-> IF h <= Len(live) THEN live[h] ELSE Free]

\* The history is kept where one listener runs at a time.
Started(kind, pc) ==
  [Free EXCEPT !.kind = kind, !.pc = pc,
               !.pre = IF serialized THEN Snapshot ELSE NoSnapshot]

\* A handler that has read TimerState as its first call
StartedReading(kind, pc) ==
  [Started(kind, pc) EXCEPT !.state = getState]

Finish(rec, response) ==
  [rec EXCEPT !.pc = "done", !.response = response]

\* updateState(nextState): the write of TimerState.  A completion that
\* changes the stored phase (to WaitingConfirm, or to Idle) is owed one
\* notification.
\* operation: "start", "acknowledge", "pause", "resume", "cancel" or
\* "complete"; rec: the record of the listener that writes.
WriteState(rec, nextState, operation) ==
  /\ stored' = [stored EXCEPT ![KEY_STATE] = Some(nextState)]
  /\ owed' = IF operation # "complete" \/ getState.phase = nextState.phase
             THEN owed
             ELSE IF nextState.phase = PHASES.WAITING_A
             THEN [owed EXCEPT !.focus = Min(@ + 1, MaxOwed)]
             ELSE [owed EXCEPT !.break = Min(@ + 1, MaxOwed)]
  /\ history' =
       IF ~serialized THEN history
       ELSE [writer |-> operation,
             pause |-> IF operation = "pause"
                       THEN Some([phase |-> rec.state.phase,
                                  endTimestamp |-> rec.state.endTimestamp[1],
                                  at |-> rec.at])
                       ELSE IF operation = "resume" THEN history.pause
                       ELSE Null]

\* A local the rest of the listener no longer reads is history.  Where
\* listeners interleave it is dropped (see Started).
Live(rec) ==
  IF serialized THEN rec
  ELSE [rec EXCEPT
          !.state = IF rec.pc \in {"startGuard", "ackGuard", "pauseGuard",
                                    "pauseWrite", "resumeGuard", "alarmCheck",
                                    "heartbeatCheck", "initCheck", "completion"}
                    THEN @ ELSE DEFAULT_STATE,
          !.config = IF rec.pc = "initConfig" THEN @ ELSE Null,
          !.seconds = IF rec.pc \in {"startPhase", "pauseWrite"} THEN @ ELSE 0,
          !.endTimestamp = IF rec.pc \in {"scheduleClear", "scheduleCreate"}
                           THEN @ ELSE 0,
          !.phase = IF rec.pc \in {"startPhase", "notify"} THEN @ ELSE PHASES.IDLE,
          !.existing = IF rec.pc = "heartbeatCreate" THEN @ ELSE FALSE,
          !.at = 0,
          !.wrote = FALSE]

\* ------------------------------------------------------- environment

\* The messages the popup can send with type "start"
GoodDurations == {Some(d) : d \in 1..MaxDur}

BadDurations == {Null, Some(0)}

MessageConfigs ==
  {Null}
  \cup {Some([durationASeconds |-> a, durationBSeconds |-> b]) :
          a \in GoodDurations, b \in GoodDurations}
  \cup {Some([durationASeconds |-> a, durationBSeconds |-> Some(1)]) :
          a \in BadDurations}
  \cup {Some([durationASeconds |-> Some(1), durationBSeconds |-> b]) :
          b \in BadDurations}

Init ==
  /\ serialized \in BOOLEAN
  /\ overlaps = 0
  /\ now = 0
  /\ stored = [config |-> Null, state |-> Null]
  /\ alarms = [phaseEnd |-> Null, heartbeat |-> Null]
  /\ alarmEvents = 0
  /\ owed = [focus |-> 0, break |-> 0]
  /\ noteShown = FALSE
  /\ history = NoHistory
  /\ viewModel = [config |-> NewConfig, state |-> NewState]
  /\ defaults = [config |-> Null, state |-> Null]
  /\ center = NoNotifications
  \* the script has been evaluated: initialize() has issued its first read
  /\ handlers = [h \in Slots |->
       IF h = 1
       THEN [Free EXCEPT !.kind = "initialize", !.pc = "initConfig"]
       ELSE Free]

\* Wall-clock time passes: a little ...  (A listener reads the clock at
\* most once, so time that passes while it runs is time that passed
\* before it started.)
Tick ==
  /\ Quiet
  /\ NoneExecuting
  /\ (now % HeartbeatPeriodMs) \div TickMs < MaxTicks
  /\ now' = now + TickMs
  /\ UNCHANGED <<stored, alarms, alarmEvents, handlers, owed, noteShown, serialized, ios, overlaps, history>>

\* ... or a heartbeat period (the machine sleeps, the worker is suspended),
\* between two listeners
Sleep ==
  /\ Quiet
  /\ NoneExecuting
  /\ now \div HeartbeatPeriodMs < MaxSleeps
  /\ now' = now + HeartbeatPeriodMs
  /\ UNCHANGED <<stored, alarms, alarmEvents, handlers, owed, noteShown, serialized, ios, overlaps, history>>

\* chrome.alarms fires the one-shot phaseEnd alarm, at or after its time
AlarmFires ==
  /\ Quiet
  /\ alarms[ALARM_ID] # Null
  /\ now >= alarms[ALARM_ID][1]
  /\ alarmEvents < MaxAlarmEvents
  /\ alarms' = [alarms EXCEPT ![ALARM_ID] = Null]
  /\ alarmEvents' = alarmEvents + 1
  /\ UNCHANGED <<now, stored, handlers, owed, noteShown, serialized, ios, overlaps, history>>

Dispatch(rec) ==
  /\ Quiet
  /\ serialized => NoneExecuting
  /\ HasSlot
  /\ NoneExecuting \/ overlaps < MaxOverlaps
  /\ handlers' = [handlers EXCEPT ![NewSlot] = Live(rec)]
  /\ overlaps' = IF NoneExecuting THEN overlaps ELSE overlaps + 1

\* onAlarm listener, alarm.name = "phaseEnd": const state = await getState()
OnAlarm ==
  /\ alarmEvents > 0
  /\ alarmEvents' = alarmEvents - 1
  /\ Dispatch(StartedReading("alarm", "alarmCheck"))
  /\ UNCHANGED <<now, stored, alarms, owed, noteShown, serialized, ios, history>>

\* the periodic heartbeat alarm fires, at or after its time, and is due again
\* one period after that time; onAlarm listener, alarm.name = "heartbeat"
OnHeartbeat ==
  /\ alarms[HEARTBEAT_ALARM_ID] # Null
  /\ now >= alarms[HEARTBEAT_ALARM_ID][1]
  /\ alarms' = [alarms EXCEPT ![HEARTBEAT_ALARM_ID] = Some(@[1] + HeartbeatPeriodMs)]
  /\ Dispatch(StartedReading("heartbeat", "heartbeatCheck"))
  /\ UNCHANGED <<now, stored, alarmEvents, owed, noteShown, serialized, ios, history>>

\* onMessage, message.type = "start" (message.config is drawn where the
\* listener first reads it, in StartGuard)
OnStart ==
  /\ Dispatch(StartedReading("start", "startGuard"))
  /\ UNCHANGED <<now, stored, alarms, alarmEvents, owed, noteShown, serialized, ios, history>>

\* onMessage, message.type = "ackA"
OnAck ==
  /\ Dispatch(StartedReading("ackA", "ackGuard"))
  /\ UNCHANGED <<now, stored, alarms, alarmEvents, owed, noteShown, serialized, ios, history>>

\* notifications.onButtonClicked: the button of a notification that is up
\* (the click closes the notification)
OnButtonClicked ==
  /\ noteShown
  /\ noteShown' = FALSE
  /\ Dispatch(StartedReading("button", "ackGuard"))
  /\ UNCHANGED <<now, stored, alarms, alarmEvents, owed, serialized, ios, history>>

\* onMessage, message.type = "pause"
OnPause ==
  /\ Dispatch(StartedReading("pause", "pauseGuard"))
  /\ UNCHANGED <<now, stored, alarms, alarmEvents, owed, noteShown, serialized, ios, history>>

\* onMessage, message.type = "resume"
OnResume ==
  /\ Dispatch(StartedReading("resume", "resumeGuard"))
  /\ UNCHANGED <<now, stored, alarms, alarmEvents, owed, noteShown, serialized, ios, history>>

\* (a slip: resetToIdle without its clearAlarm)
OnCancelKeepingAlarm ==
  /\ Dispatch(Started("cancel", "writeIdle"))
  /\ UNCHANGED alarms
  /\ UNCHANGED <<now, stored, alarmEvents, owed, noteShown, serialized, ios, history>>

\* onMessage, message.type = "cancel": resetToIdle starts with clearAlarm()
OnCancel ==
  /\ Dispatch(Started("cancel", "writeIdle"))
  /\ alarms' = [alarms EXCEPT ![ALARM_ID] = Null]
  /\ UNCHANGED <<now, stored, alarmEvents, owed, noteShown, serialized, ios, history>>

\* The browser restarts the service worker (it stops it only when no
\* listener is running): the script is evaluated again and initialize()
\* issues its first read, storage.local.get("config").
Restart ==
  /\ NoneExecuting
  /\ Dispatch([Started("initialize", "initConfig") EXCEPT
                 !.config = stored[KEY_CONFIG]])
  /\ UNCHANGED <<now, stored, alarms, alarmEvents, owed, noteShown, serialized, ios, history>>

\* ----------------------------------------------------- handler steps

Continue(h, rec) ==
  /\ Quiet
  /\ handlers' = [handlers EXCEPT ![h] = Live(rec)]

\* The response a message listener sends when its work is done
OkResponse(kind) == IF kind \in {"start", "ackA", "resume"} THEN "ok" ELSE "none"

\* 'start' branch, after getState: the two guards, then
\* startTimerA: setStored(CONFIG, config)
StartGuard(h) ==
  LET rec == handlers[h] IN
  /\ rec.pc = "startGuard"
  /\ IF AlreadyRunning(rec.state)
     THEN /\ Continue(h, Finish(rec, "Timer already running."))
          /\ UNCHANGED stored
     ELSE \E config \in MessageConfigs :
       IF ~ValidConfig(config)
       THEN /\ Continue(h, Finish([rec EXCEPT !.config = config],
                                  "Invalid durations."))
            /\ UNCHANGED stored
       ELSE /\ stored' = [stored EXCEPT ![KEY_CONFIG] = config]
            /\ Continue(h, [rec EXCEPT !.pc = "startPhase",
                                       !.config = config,
                                       !.phase = PHASES.RUNNING_A,
                                       !.seconds = config[1].durationASeconds[1]])
  /\ UNCHANGED <<now, alarms, alarmEvents, owed, noteShown, serialized, ios, overlaps, history>>

\* 'ackA' branch and the button listener, after getState: the guard, then
\* startTimerB: const config = await getConfig()
AckGuard(h) ==
  LET rec == handlers[h] IN
  /\ rec.pc = "ackGuard"
  /\ IF AwaitingConfirm(rec.state)
     THEN Continue(h, [rec EXCEPT !.pc = "startPhase",
                                  !.phase = PHASES.RUNNING_B,
                                  !.seconds = getConfig.durationBSeconds[1]])
     ELSE Continue(h, Finish(rec, IF rec.kind = "ackA" THEN "Invalid state."
                                                       ELSE "none"))
  /\ UNCHANGED <<now, stored, alarms, alarmEvents, owed, noteShown, serialized, ios, overlaps, history>>

\* startPhase: endTimestamp = nowMs() + durationSeconds * 1000; updateState
StartPhase(h) ==
  LET rec == handlers[h]
      endTimestamp == EndTimestampFor(now, rec.seconds) IN
  /\ rec.pc = "startPhase"
  /\ WriteState(rec, RunningState(rec.phase, endTimestamp),
                IF rec.phase = PHASES.RUNNING_A THEN "start" ELSE "acknowledge")
  /\ Continue(h, [rec EXCEPT !.pc = "scheduleClear", !.wrote = TRUE,
                             !.at = now, !.endTimestamp = endTimestamp])
  /\ UNCHANGED <<now, alarms, alarmEvents, noteShown, serialized, ios, overlaps>>

\* scheduleAlarm: await clearAlarm()
ScheduleClear(h) ==
  LET rec == handlers[h] IN
  /\ rec.pc = "scheduleClear"
  /\ alarms' = [alarms EXCEPT ![ALARM_ID] = Null]
  /\ Continue(h, [rec EXCEPT !.pc = "scheduleCreate"])
  /\ UNCHANGED <<now, stored, alarmEvents, owed, noteShown, serialized, ios, overlaps, history>>

\* (a slip: the alarm is created a delay after now, not at endTimestamp)
ScheduleCreateAfterDelay(h) ==
  LET rec == handlers[h] IN
  /\ rec.pc = "scheduleCreate"
  /\ alarms' = [alarms EXCEPT ![ALARM_ID] = Some(now + rec.endTimestamp)]
  /\ IF rec.kind \in {"alarm", "initialize"}
     THEN Continue(h, Finish(rec, "none"))
     ELSE Continue(h, [rec EXCEPT !.pc = "heartbeatCreate",
                         !.existing = (alarms[HEARTBEAT_ALARM_ID] # Null)])
  /\ UNCHANGED <<now, stored, alarmEvents, owed, noteShown, serialized, ios, overlaps, history>>

\* scheduleAlarm: chrome.alarms.create(ALARM_ID, { when: endTimestamp }), and,
\* in startPhase and 'resume', ensureHeartbeatAlarm: alarms.get(HEARTBEAT_ALARM_ID)
ScheduleCreate(h) ==
  LET rec == handlers[h] IN
  /\ rec.pc = "scheduleCreate"
  /\ alarms' = [alarms EXCEPT ![ALARM_ID] = Some(rec.endTimestamp)]
  /\ IF rec.kind \in {"alarm", "initialize"}
     THEN Continue(h, Finish(rec, "none"))
     ELSE Continue(h, [rec EXCEPT !.pc = "heartbeatCreate",
                         !.existing = (alarms[HEARTBEAT_ALARM_ID] # Null)])
  /\ UNCHANGED <<now, stored, alarmEvents, owed, noteShown, serialized, ios, overlaps, history>>

\* ensureHeartbeatAlarm, after alarms.get: if (existing) return;
\* chrome.alarms.create(HEARTBEAT_ALARM_ID, { periodInMinutes: 1 }).
\* Then initialize goes on to getState(), and a message listener responds.
HeartbeatCreate(h) ==
  LET rec == handlers[h] IN
  /\ rec.pc = "heartbeatCreate"
  /\ alarms' = IF rec.existing THEN alarms
               ELSE [alarms EXCEPT ![HEARTBEAT_ALARM_ID] =
                       Some(now + HeartbeatPeriodMs)]
  /\ IF rec.kind = "initialize"
     THEN Continue(h, [rec EXCEPT !.pc = "initCheck", !.state = getState])
     ELSE Continue(h, Finish(rec, OkResponse(rec.kind)))
  /\ UNCHANGED <<now, stored, alarmEvents, owed, noteShown, serialized, ios, overlaps, history>>

\* (a slip: the pause is answered before updateState)
PauseStepAnsweringFirst(h) ==
  LET rec == handlers[h] IN
  /\ rec.pc = "pauseGuard"
  /\ IF PauseGuard(rec.state)
     THEN /\ alarms' = [alarms EXCEPT ![ALARM_ID] = Null]
          /\ Continue(h, [rec EXCEPT !.pc = "pauseWrite", !.at = now,
                 !.response = "ok",
                 !.seconds = RemainingAtPause(rec.state.endTimestamp[1], now)])
     ELSE /\ Continue(h, Finish(rec, "Nothing to pause."))
          /\ UNCHANGED alarms
  /\ UNCHANGED <<now, stored, alarmEvents, owed, noteShown, serialized, ios, overlaps, history>>

\* (a slip: clearAlarm() is called before the guard)
PauseStepClearingFirst(h) ==
  LET rec == handlers[h] IN
  /\ rec.pc = "pauseGuard"
  /\ alarms' = [alarms EXCEPT ![ALARM_ID] = Null]
  /\ IF PauseGuard(rec.state)
     THEN Continue(h, [rec EXCEPT !.pc = "pauseWrite", !.at = now,
            !.seconds = RemainingAtPause(rec.state.endTimestamp[1], now)])
     ELSE Continue(h, Finish(rec, "Nothing to pause."))
  /\ UNCHANGED <<now, stored, alarmEvents, owed, noteShown, serialized, ios, overlaps, history>>

\* 'pause' branch, after getState: the guard, remainingSeconds, clearAlarm()
PauseStep(h) ==
  LET rec == handlers[h] IN
  /\ rec.pc = "pauseGuard"
  /\ IF PauseGuard(rec.state)
     THEN /\ alarms' = [alarms EXCEPT ![ALARM_ID] = Null]
          /\ Continue(h, [rec EXCEPT !.pc = "pauseWrite", !.at = now,
                 !.seconds = RemainingAtPause(rec.state.endTimestamp[1], now)])
     ELSE /\ Continue(h, Finish(rec, "Nothing to pause."))
          /\ UNCHANGED alarms
  /\ UNCHANGED <<now, stored, alarmEvents, owed, noteShown, serialized, ios, overlaps, history>>

\* 'pause' branch: updateState({ ...state, paused: true, ... }); sendResponse
PauseWrite(h) ==
  LET rec == handlers[h] IN
  /\ rec.pc = "pauseWrite"
  /\ WriteState(rec, PausedState(rec.state, rec.seconds), "pause")
  /\ Continue(h, Finish([rec EXCEPT !.wrote = TRUE], "ok"))
  /\ UNCHANGED <<now, alarms, alarmEvents, noteShown, serialized, ios, overlaps>>

\* 'resume' branch, after getState: the guard, endTimestamp, updateState
ResumeStep(h) ==
  LET rec == handlers[h]
      endTimestamp == EndTimestampFor(now, RemainingOf(rec.state)[1]) IN
  /\ rec.pc = "resumeGuard"
  /\ IF ResumeGuard(rec.state)
     THEN /\ WriteState(rec, ResumedState(rec.state, endTimestamp), "resume")
          /\ Continue(h, [rec EXCEPT !.pc = "scheduleClear", !.wrote = TRUE,
                                     !.at = now,
                                     !.endTimestamp = endTimestamp])
     ELSE /\ Continue(h, Finish(rec, "Nothing to resume."))
          /\ UNCHANGED <<stored, owed, history>>
  /\ UNCHANGED <<now, alarms, alarmEvents, noteShown, serialized, ios, overlaps>>

\* resetToIdle, after clearAlarm(): updateState(the defaults); then 'cancel'
\* responds and handlePhaseCompletion goes on to notify
WriteIdle(h) ==
  LET rec == handlers[h] IN
  /\ rec.pc = "writeIdle"
  /\ WriteState(rec, DEFAULT_STATE,
                IF rec.kind = "cancel" THEN "cancel" ELSE "complete")
  /\ IF rec.kind = "cancel"
     THEN Continue(h, Finish([rec EXCEPT !.wrote = TRUE], "ok"))
     ELSE Continue(h, [rec EXCEPT !.pc = "notify", !.wrote = TRUE,
                                  !.phase = PHASES.RUNNING_B])
  /\ UNCHANGED <<now, alarms, alarmEvents, noteShown, serialized, ios, overlaps>>

\* The caller found the phase over: handlePhaseCompletion's getState()
EnterCompletion(rec) == [rec EXCEPT !.pc = "completion", !.state = getState]

\* handleAlarm for "phaseEnd", after getState
AlarmCheck(h) ==
  LET rec == handlers[h] IN
  /\ rec.pc = "alarmCheck"
  /\ IF ~IsRunning(rec.state) \/ ~Truthy(rec.state.endTimestamp)
     THEN /\ Continue(h, Finish(rec, "none"))
          /\ UNCHANGED alarms
     ELSE IF now >= rec.state.endTimestamp[1]
     THEN /\ Continue(h, EnterCompletion(rec))
          /\ UNCHANGED alarms
     ELSE \* scheduleAlarm(state.endTimestamp): await clearAlarm()
          /\ alarms' = [alarms EXCEPT ![ALARM_ID] = Null]
          /\ Continue(h, [rec EXCEPT !.pc = "scheduleCreate",
                                     !.endTimestamp = rec.state.endTimestamp[1]])
  /\ UNCHANGED <<now, stored, alarmEvents, owed, noteShown, serialized, ios, overlaps, history>>

\* (a slip: the heartbeat refreshes the badge and checks nothing)
HeartbeatRefreshOnly(h) ==
  LET rec == handlers[h] IN
  /\ rec.pc = "heartbeatCheck"
  /\ Continue(h, Finish(rec, "none"))
  /\ UNCHANGED <<now, stored, alarms, alarmEvents, owed, noteShown, serialized, ios, overlaps, history>>

\* handleAlarm for "heartbeat", after getState (and updateActionUI)
HeartbeatCheck(h) ==
  LET rec == handlers[h] IN
  /\ rec.pc = "heartbeatCheck"
  /\ IF IsPaused(rec.state)
     THEN Continue(h, Finish(rec, "none"))
     ELSE IF IsRunning(rec.state) /\ EndPassed(rec.state, now)
     THEN Continue(h, EnterCompletion(rec))
     ELSE Continue(h, Finish(rec, "none"))
  /\ UNCHANGED <<now, stored, alarms, alarmEvents, owed, noteShown, serialized, ios, overlaps, history>>

\* (a slip: the completed Focus starts the Break by itself)
CompletionStartingBreak(h) ==
  LET rec == handlers[h] IN
  /\ rec.pc = "completion"
  /\ IF IsPaused(rec.state)
     THEN /\ Continue(h, Finish(rec, "none"))
          /\ UNCHANGED <<stored, alarms, owed, history>>
     ELSE IF rec.state.phase = PHASES.RUNNING_A
     THEN /\ WriteState(rec, RunningState(PHASES.RUNNING_B,
                          EndTimestampFor(now, getConfig.durationBSeconds[1])),
                        "complete")
          /\ Continue(h, [rec EXCEPT !.pc = "notify", !.wrote = TRUE,
                                     !.phase = PHASES.WAITING_A])
          /\ UNCHANGED alarms
     ELSE IF rec.state.phase = PHASES.RUNNING_B
     THEN /\ alarms' = [alarms EXCEPT ![ALARM_ID] = Null]
          /\ Continue(h, [rec EXCEPT !.pc = "writeIdle"])
          /\ UNCHANGED <<stored, owed, history>>
     ELSE /\ Continue(h, Finish(rec, "none"))
          /\ UNCHANGED <<stored, alarms, owed, history>>
  /\ UNCHANGED <<now, alarmEvents, noteShown, serialized, ios, overlaps>>

\* (a slip: the paused test is inverted, if (!state.paused) return)
CompletionOnlyWhenPaused(h) ==
  LET rec == handlers[h] IN
  /\ rec.pc = "completion"
  /\ IF ~IsPaused(rec.state)
     THEN /\ Continue(h, Finish(rec, "none"))
          /\ UNCHANGED <<stored, alarms, owed, history>>
     ELSE IF rec.state.phase = PHASES.RUNNING_A
     THEN /\ WriteState(rec, WaitingState(PHASES.WAITING_A), "complete")
          /\ Continue(h, [rec EXCEPT !.pc = "notify", !.wrote = TRUE,
                                     !.phase = PHASES.WAITING_A])
          /\ UNCHANGED alarms
     ELSE IF rec.state.phase = PHASES.RUNNING_B
     THEN /\ alarms' = [alarms EXCEPT ![ALARM_ID] = Null]
          /\ Continue(h, [rec EXCEPT !.pc = "writeIdle"])
          /\ UNCHANGED <<stored, owed, history>>
     ELSE /\ Continue(h, Finish(rec, "none"))
          /\ UNCHANGED <<stored, alarms, owed, history>>
  /\ UNCHANGED <<now, alarmEvents, noteShown, serialized, ios, overlaps>>

\* (a slip: a finished focus is notified before transitionToWaiting)
CompletionNotifyingFirst(h) ==
  LET rec == handlers[h] IN
  /\ rec.pc = "completion"
  /\ IF ~IsPaused(rec.state) /\ rec.state.phase = PHASES.RUNNING_A
     THEN /\ Continue(h, [rec EXCEPT !.pc = "notify", !.phase = PHASES.WAITING_A])
          /\ UNCHANGED <<stored, alarms, owed, history>>
     ELSE IF ~IsPaused(rec.state) /\ rec.state.phase = PHASES.RUNNING_B
     THEN /\ alarms' = [alarms EXCEPT ![ALARM_ID] = Null]
          /\ Continue(h, [rec EXCEPT !.pc = "writeIdle"])
          /\ UNCHANGED <<stored, owed, history>>
     ELSE /\ Continue(h, Finish(rec, "none"))
          /\ UNCHANGED <<stored, alarms, owed, history>>
  /\ UNCHANGED <<now, alarmEvents, noteShown, serialized, ios, overlaps>>

\* handlePhaseCompletion, after getState
Completion(h) ==
  LET rec == handlers[h] IN
  /\ rec.pc = "completion"
  /\ IF IsPaused(rec.state)
     THEN /\ Continue(h, Finish(rec, "none"))
          /\ UNCHANGED <<stored, alarms, owed, history>>
     ELSE IF rec.state.phase = PHASES.RUNNING_A
     THEN \* transitionToWaiting(WAITING_A)
          /\ WriteState(rec, WaitingState(PHASES.WAITING_A), "complete")
          /\ Continue(h, [rec EXCEPT !.pc = "notify", !.wrote = TRUE,
                                     !.phase = PHASES.WAITING_A])
          /\ UNCHANGED alarms
     ELSE IF rec.state.phase = PHASES.RUNNING_B
     THEN \* resetToIdle: await clearAlarm()
          /\ alarms' = [alarms EXCEPT ![ALARM_ID] = Null]
          /\ Continue(h, [rec EXCEPT !.pc = "writeIdle"])
          /\ UNCHANGED <<stored, owed, history>>
     ELSE /\ Continue(h, Finish(rec, "none"))
          /\ UNCHANGED <<stored, alarms, owed, history>>
  /\ UNCHANGED <<now, alarmEvents, noteShown, serialized, ios, overlaps>>

\* (a slip: a notification that failed is requested again)
NotifyRetrying(h) ==
  LET rec == handlers[h] IN
  /\ rec.pc = "notify"
  /\ \E shown \in BOOLEAN :
       /\ IF shown
          THEN Continue(h, Finish([rec EXCEPT !.notified = "shown"], "none"))
          ELSE Continue(h, [rec EXCEPT !.notified = "failed"])
       /\ noteShown' = (noteShown \/ (shown /\ rec.phase = PHASES.WAITING_A))
  /\ owed' = IF rec.phase = PHASES.WAITING_A
             THEN [owed EXCEPT !.focus = Max(@ - 1, -1)]
             ELSE [owed EXCEPT !.break = Max(@ - 1, -1)]
  /\ UNCHANGED <<now, stored, alarms, alarmEvents, serialized, ios, overlaps, history>>

\* notifyPhaseComplete(phase): chrome.notifications.create, which may fail
Notify(h) ==
  LET rec == handlers[h] IN
  /\ rec.pc = "notify"
  /\ \E shown \in BOOLEAN :
       /\ Continue(h, Finish([rec EXCEPT !.notified =
                                IF shown THEN "shown" ELSE "failed"], "none"))
       /\ noteShown' = (noteShown \/ (shown /\ rec.phase = PHASES.WAITING_A))
  /\ owed' = IF rec.phase = PHASES.WAITING_A
             THEN [owed EXCEPT !.focus = Max(@ - 1, -1)]
             ELSE [owed EXCEPT !.break = Max(@ - 1, -1)]
  /\ UNCHANGED <<now, stored, alarms, alarmEvents, serialized, ios, overlaps, history>>

\* initialize, after storage.local.get(CONFIG): setStored(CONFIG, DEFAULT_CONFIG)
\* when there is none, else ensureHeartbeatAlarm's alarms.get
InitConfig(h) ==
  LET rec == handlers[h] IN
  /\ rec.pc = "initConfig"
  /\ IF rec.config = Null
     THEN /\ stored' = [stored EXCEPT ![KEY_CONFIG] = Some(DEFAULT_CONFIG)]
          /\ Continue(h, [rec EXCEPT !.pc = "initHeartbeat"])
     ELSE /\ Continue(h, [rec EXCEPT !.pc = "heartbeatCreate",
                            !.existing = (alarms[HEARTBEAT_ALARM_ID] # Null)])
          /\ UNCHANGED stored
  /\ UNCHANGED <<now, alarms, alarmEvents, owed, noteShown, serialized, ios, overlaps, history>>

\* initialize: ensureHeartbeatAlarm's alarms.get(HEARTBEAT_ALARM_ID)
InitHeartbeat(h) ==
  LET rec == handlers[h] IN
  /\ rec.pc = "initHeartbeat"
  /\ Continue(h, [rec EXCEPT !.pc = "heartbeatCreate",
                             !.existing = (alarms[HEARTBEAT_ALARM_ID] # Null)])
  /\ UNCHANGED <<now, stored, alarms, alarmEvents, owed, noteShown, serialized, ios, overlaps, history>>

\* initialize, after getState (and updateActionUI)
InitCheck(h) ==
  LET rec == handlers[h] IN
  /\ rec.pc = "initCheck"
  /\ IF IsRunning(rec.state) /\ EndPassed(rec.state, now)
     THEN /\ Continue(h, EnterCompletion(rec))
          /\ UNCHANGED alarms
     ELSE IF IsRunning(rec.state) /\ Truthy(rec.state.endTimestamp)
     THEN \* scheduleAlarm(state.endTimestamp): await clearAlarm()
          /\ alarms' = [alarms EXCEPT ![ALARM_ID] = Null]
          /\ Continue(h, [rec EXCEPT !.pc = "scheduleCreate",
                                     !.endTimestamp = rec.state.endTimestamp[1]])
     ELSE /\ Continue(h, Finish(rec, "none"))
          /\ UNCHANGED alarms
  /\ UNCHANGED <<now, stored, alarmEvents, owed, noteShown, serialized, ios, overlaps, history>>

\* ---------------------------------------------------- specifications

Step ==
  \E h \in Slots :
    \/ StartGuard(h)
    \/ AckGuard(h)
    \/ StartPhase(h)
    \/ ScheduleClear(h)
    \/ ScheduleCreate(h)
    \/ HeartbeatCreate(h)
    \/ PauseStep(h)
    \/ PauseWrite(h)
    \/ ResumeStep(h)
    \/ WriteIdle(h)
    \/ AlarmCheck(h)
    \/ HeartbeatCheck(h)
    \/ Completion(h)
    \/ Notify(h)
    \/ InitConfig(h)
    \/ InitHeartbeat(h)
    \/ InitCheck(h)

Environment == Tick \/ Sleep \/ AlarmFires

Event ==
  \/ OnAlarm
  \/ OnHeartbeat
  \/ OnStart
  \/ OnAck
  \/ OnButtonClicked
  \/ OnPause
  \/ OnResume
  \/ OnCancel
  \/ Restart

\* A finished listener's record holds its response and its history only.
\* It is dropped before anything else happens.
Retire ==
  /\ ~Quiet
  /\ handlers' = InFlight(SelectSeq(handlers, LAMBDA rec : rec.pc # "done"))
  /\ history' = IF \E h \in Slots : handlers[h].pc = "done"
                                     /\ handlers[h].kind = "resume"
                THEN [history EXCEPT !.pause = Null]
                ELSE history
  /\ UNCHANGED <<now, stored, alarms, alarmEvents, owed, noteShown, serialized, ios, overlaps>>

Next == Retire \/ Event \/ Step \/ Environment

\* The program: its listeners interleave at their await points.
ConcurrentInit == Init /\ ~serialized

Spec == ConcurrentInit /\ [][Next]_vars

\* One listener at a time: an event is handled when no listener is running.
SerialInit == Init /\ serialized

SerialSpec == SerialInit /\ [][Next]_vars

\* One listener at a time, and nothing that can happen is put off for
\* ever: a listener continues after each await and returns, chrome.alarms
\* delivers an alarm that is due, and time passes.
Fairness ==
  /\ WF_vars(Step)
  /\ WF_vars(Retire)
  /\ SF_vars(AlarmFires)
  /\ SF_vars(OnAlarm)
  /\ SF_vars(OnHeartbeat)
  /\ SF_vars(Tick \/ Sleep)

FairSpec == SerialInit /\ [][Next]_vars /\ Fairness

\* ------------------------------------------------------------- iOS
\* The iOS app (ContentView.swift).  TimerViewModel is a @MainActor class:
\* each of its functions runs to its end before the next one starts.

\* The values the duration Steppers can show (the app: 1...240 and 1...120)
Minutes == 1..MaxDur

\* persist(): config and state are written to UserDefaults
persist(vm) == [config |-> Some(vm.config), state |-> Some(vm.state)]

\* A notification the center shows: its identifier, whether a time trigger
\* delivered it, and the phase of the TimerViewModel at that moment
Delivered(identifier, timed, phase) ==
  Some([identifier |-> identifier, timed |-> timed, phase |-> phase])

\* scheduleCompletionNotification(for: phase): the pending requests are
\* removed; a running phase adds a request that fires at state.endDate
\* (after 1 s when there is none), WaitingConfirm and Idle add one with no
\* trigger, which is delivered at once.
scheduleCompletionNotification(phase, state) ==
  LET fireAt == IF state.endDate # Null THEN state.endDate[1]
                                        ELSE now + MsPerSecond IN
  IF phase = Phase.runningFocus
  THEN [center EXCEPT !.pending = Some([identifier |-> "focusComplete",
                                        fireAt |-> fireAt])]
  ELSE IF phase = Phase.runningBreak
  THEN [center EXCEPT !.pending = Some([identifier |-> "breakComplete",
                                        fireAt |-> fireAt])]
  ELSE IF phase = Phase.waitingForConfirm
  THEN [pending |-> Null, delivered |-> Delivered("focusComplete", FALSE, phase)]
  ELSE IF phase = Phase.idle
  THEN [pending |-> Null, delivered |-> Delivered("breakComplete", FALSE, phase)]
  ELSE [center EXCEPT !.pending = Null]

\* An operation's effect: the view model, then persist(), then the
\* notification request when the operation makes one
Persisted(vm) ==
  /\ viewModel' = vm
  /\ defaults' = persist(vm)

\* start()
start ==
  /\ viewModel.state.phase = Phase.idle
  /\ viewModel.config.focusMinutes > 0
  /\ viewModel.config.breakMinutes > 0
  /\ LET state == [phase |-> Phase.runningFocus,
                   endDate |-> Some(now + viewModel.config.focusMinutes * MsPerMinute),
                   remainingSeconds |-> Null] IN
     /\ Persisted([viewModel EXCEPT !.state = state])
     /\ center' = scheduleCompletionNotification(Phase.runningFocus, state)
  /\ UNCHANGED <<now, chrome>>

\* confirmStartBreak()
confirmStartBreak ==
  /\ viewModel.state.phase = Phase.waitingForConfirm
  /\ LET state == [phase |-> Phase.runningBreak,
                   endDate |-> Some(now + viewModel.config.breakMinutes * MsPerMinute),
                   remainingSeconds |-> Null] IN
     /\ Persisted([viewModel EXCEPT !.state = state])
     /\ center' = scheduleCompletionNotification(Phase.runningBreak, state)
  /\ UNCHANGED <<now, chrome>>

\* pauseOrResume(), a running phase: max(1, end.timeIntervalSinceNow)
RemainingAtPauseOrResume(endDate, t) == Max(MsPerSecond, endDate - t)

\* pauseOrResume()
pauseOrResume ==
  LET state == viewModel.state IN
  /\ IF state.phase \in {Phase.runningFocus, Phase.runningBreak}
     THEN /\ state.endDate # Null
          /\ Persisted([viewModel EXCEPT !.state =
               [phase |-> IF state.phase = Phase.runningFocus
                          THEN Phase.pausedFocus ELSE Phase.pausedBreak,
                endDate |-> Null,
                remainingSeconds |->
                  Some(RemainingAtPauseOrResume(state.endDate[1], now))]])
          /\ UNCHANGED center
     ELSE /\ state.phase \in {Phase.pausedFocus, Phase.pausedBreak}
          /\ state.remainingSeconds # Null
          /\ LET resumed ==
                   [phase |-> IF state.phase = Phase.pausedFocus
                              THEN Phase.runningFocus ELSE Phase.runningBreak,
                    endDate |-> Some(now + state.remainingSeconds[1]),
                    remainingSeconds |-> Null] IN
             /\ Persisted([viewModel EXCEPT !.state = resumed])
             /\ center' = scheduleCompletionNotification(resumed.phase, resumed)
  /\ UNCHANGED <<now, chrome>>

\* cancel()
cancel ==
  /\ Persisted([viewModel EXCEPT !.state = NewState])
  /\ UNCHANGED <<now, center, chrome>>

\* handleCompletion(), called on the view model vm
handleCompletion(vm) ==
  IF vm.state.phase = Phase.runningFocus
  THEN LET state == [vm.state EXCEPT !.phase = Phase.waitingForConfirm,
                                     !.endDate = Null] IN
       /\ Persisted([vm EXCEPT !.state = state])
       /\ center' = scheduleCompletionNotification(Phase.waitingForConfirm, state)
  ELSE IF vm.state.phase = Phase.runningBreak
  THEN /\ Persisted([vm EXCEPT !.state = NewState])
       /\ center' = scheduleCompletionNotification(Phase.idle, NewState)
  ELSE /\ viewModel' = vm
       /\ UNCHANGED <<defaults, center>>

\* tick() / resumeIfNeeded(): a running phase whose endDate has passed
EndDatePassed(state, t) ==
  /\ state.phase \in {Phase.runningFocus, Phase.runningBreak}
  /\ state.endDate # Null
  /\ state.endDate[1] <= t

\* tick(), the 1 s Timer of startTicking, where it does more than refresh
\* the display.  (The Timer does not run while the app is suspended.)
tick ==
  /\ EndDatePassed(viewModel.state, now)
  /\ handleCompletion(viewModel)
  /\ UNCHANGED <<now, chrome>>

\* init(), the app is launched again: loadStored(), resumeIfNeeded()
loadStored ==
  [config |-> IF defaults.config # Null THEN defaults.config[1] ELSE NewConfig,
   state  |-> IF defaults.state # Null THEN defaults.state[1] ELSE NewState]

Launch ==
  /\ IF EndDatePassed(loadStored.state, now)
     THEN handleCompletion(loadStored)
     ELSE /\ viewModel' = loadStored
          /\ UNCHANGED <<defaults, center>>
  /\ UNCHANGED <<now, chrome>>

\* The duration Steppers, bound to model.config: one step up or down
FocusStepper ==
  /\ \E m \in Minutes :
       /\ m \in {viewModel.config.focusMinutes - 1, viewModel.config.focusMinutes + 1}
       /\ viewModel' = [viewModel EXCEPT !.config.focusMinutes = m]
  /\ UNCHANGED <<now, defaults, center, chrome>>

BreakStepper ==
  /\ \E m \in Minutes :
       /\ m \in {viewModel.config.breakMinutes - 1, viewModel.config.breakMinutes + 1}
       /\ viewModel' = [viewModel EXCEPT !.config.breakMinutes = m]
  /\ UNCHANGED <<now, defaults, center, chrome>>

\* The system delivers the pending request at or after its trigger time
Deliver ==
  /\ center.pending # Null
  /\ now >= center.pending[1].fireAt
  /\ center' = [pending |-> Null,
                delivered |-> Delivered(center.pending[1].identifier, TRUE,
                                        viewModel.state.phase)]
  /\ UNCHANGED <<now, viewModel, defaults, chrome>>

\* A minute passes
Minute ==
  /\ now \div MsPerMinute < MaxMinutes
  /\ now' = now + MsPerMinute
  /\ UNCHANGED <<ios, chrome>>

\* A previous session left its Config and an Idle state in UserDefaults
\* (cancel() persists both); the app has been launched.
IosInit ==
  /\ now = 0
  /\ stored = [config |-> Null, state |-> Null]
  /\ alarms = [phaseEnd |-> Null, heartbeat |-> Null]
  /\ alarmEvents = 0
  /\ handlers = [h \in Slots |-> Free]
  /\ owed = [focus |-> 0, break |-> 0]
  /\ noteShown = FALSE
  /\ serialized = TRUE
  /\ overlaps = 0
  /\ history = NoHistory
  /\ \E config \in [focusMinutes : Minutes, breakMinutes : Minutes] :
       /\ defaults = persist([config |-> config, state |-> NewState])
       /\ viewModel = [config |-> config, state |-> NewState]
  /\ center = NoNotifications

IosNext ==
  \/ start
  \/ confirmStartBreak
  \/ pauseOrResume
  \/ cancel
  \/ tick
  \/ Launch
  \/ FocusStepper
  \/ BreakStepper
  \/ Deliver
  \/ Tick
  \/ Minute

IosSpec == IosInit /\ [][IosNext]_vars

\* -------------------------------------------------------- properties
\* Where one listener runs at a time (SerialSpec) a finished listener's
\* record rec holds what it read (rec.state), the nowMs() it computed with
\* (rec.at), what it did (rec.wrote, rec.notified, rec.response) and the
\* world at its start (rec.pre).

Done(h) == handlers[h].pc = "done"

Checks == {"alarm", "heartbeat", "initialize"}

\* The phase of a stored TimerState (Null: nothing stored, the default)
PhaseOf(s) == IF s = Null THEN "idle" ELSE s[1].phase

PausedIn(s) == s # Null /\ "paused" \in DOMAIN s[1] /\ s[1].paused

\* The listener left the phaseEnd alarm alone: it is as it was at the
\* listener's start, or the browser has fired it since.
PhaseEndAlarmKept(rec) ==
  \/ alarms[ALARM_ID] = rec.pre.phaseEnd
  \/ /\ rec.pre.phaseEnd # Null /\ alarms[ALARM_ID] = Null
     /\ now >= rec.pre.phaseEnd[1]
     /\ alarmEvents = rec.pre.alarmEvents + 1

\* C1: when the stored state is an unpaused running phase whose endTimestamp
\* has passed, the next listener of any kind leaves RunningFocus as
\* WaitingConfirm and RunningBreak as Idle.
C1_ReentryCompletesOverduePhase ==
  \A h \in Slots :
    Done(h) /\ handlers[h].pre.due =>
      PhaseOf(stored[KEY_STATE]) =
        (IF PhaseOf(handlers[h].pre.state) = "runningA"
         THEN "waitingForAConfirm" ELSE "idle")

\* C2: a phaseEnd or heartbeat check that runs after a cancel (the last
\* write of TimerState was cancel's) reads phase Idle, writes no state,
\* leaves the stored state as it was and requests no notification.
C2_CancelWins ==
  \A h \in Slots :
    Done(h) /\ handlers[h].kind \in {"alarm", "heartbeat"}
            /\ handlers[h].pre.writer = "cancel" =>
      /\ handlers[h].state.phase = "idle"
      /\ ~handlers[h].wrote
      /\ handlers[h].notified = "none"
      /\ stored[KEY_STATE] = handlers[h].pre.state

\* a phaseEnd alarm that fired before the cancel is handled after it
C2_Witness ==
  \E h \in Slots :
    Done(h) /\ handlers[h].kind = "alarm" /\ handlers[h].pre.writer = "cancel"

\* C3: no phase is notified more often than it was completed: the "focus
\* complete" notifications requested never outnumber the completions that
\* moved the stored phase to WaitingConfirm, nor the "break complete" ones
\* those that moved it to Idle.
C3_EachCompletionNotifiedOnce == owed.focus >= 0 /\ owed.break >= 0

\* C4: a listener that writes a TimerState computed from the state it read
\* (pause, resume, completion) writes while that state is still the stored
\* one: no other listener has replaced it in between.
C4_NoLostUpdate ==
  [][\A h \in Slots :
       (/\ handlers[h].pc \in {"pauseWrite", "resumeGuard", "completion"}
        /\ handlers'[h] # handlers[h]
        /\ stored'[KEY_STATE] # stored[KEY_STATE])
       => handlers[h].state = getState]_vars

\* C5: while the stored phase is paused, TimerState changes only by a
\* write of resume or of cancel.
C5_PausedChangesOnlyByResumeOrCancel ==
  [][PausedIn(stored[KEY_STATE]) /\ stored'[KEY_STATE] # stored[KEY_STATE]
       => history'.writer \in {"resume", "cancel"}]_vars

\* a heartbeat has run on a paused phase, a heartbeat period or more after
\* the pause
C5_Witness ==
  \E h \in Slots :
    /\ Done(h) /\ handlers[h].kind = "heartbeat"
    /\ PausedIn(handlers[h].pre.state)
    /\ PausedIn(stored[KEY_STATE])
    /\ now >= HeartbeatPeriodMs

\* C6: after pause at p and resume at r the phase is the one paused, the
\* new endTimestamp is the old one + (r - p) within one second, and at
\* least one second remains.
C6_PauseResumeRoundTrip ==
  \A h \in Slots :
    Done(h) /\ handlers[h].kind = "resume" /\ handlers[h].response = "ok" =>
      LET paused == history.pause[1]
          r == handlers[h].at
          endTimestamp == getState.endTimestamp[1]
          shifted == paused.endTimestamp + (r - paused.at)
      IN /\ getState.phase = paused.phase
         /\ endTimestamp - shifted <= 1000
         /\ shifted - endTimestamp <= 1000
         /\ endTimestamp - r >= 1000

\* C7: start with durations >= 1 while the phase is Idle answers ok and
\* leaves RunningFocus, unpaused, remainingSeconds null, endTimestamp =
\* the time of the start + the focus duration, and the config stored.
C7_StartFromIdle ==
  \A h \in Slots :
    LET rec == handlers[h] IN
    (/\ Done(h) /\ rec.kind = "start"
     /\ PhaseOf(rec.pre.state) = "idle"
     /\ rec.config # Null
     /\ rec.config[1].durationASeconds # Null
     /\ rec.config[1].durationBSeconds # Null
     /\ rec.config[1].durationASeconds[1] >= 1
     /\ rec.config[1].durationBSeconds[1] >= 1)
    => /\ rec.response = "ok"
       /\ stored[KEY_STATE] =
            <<[phase |-> "runningA",
               endTimestamp |-> <<rec.at + rec.config[1].durationASeconds[1] * 1000>>,
               paused |-> FALSE, remainingSeconds |-> <<>>]>>
       /\ stored[KEY_CONFIG] = rec.config

\* a start of a 2 s focus and a 1 s break, some time after the worker began
C7_Witness ==
  \E h \in Slots :
    /\ Done(h) /\ handlers[h].kind = "start" /\ handlers[h].response = "ok"
    /\ handlers[h].config = <<[durationASeconds |-> <<2>>, durationBSeconds |-> <<1>>]>>
    /\ handlers[h].at > 0

\* C8: an acknowledge in WaitingConfirm leaves RunningBreak with
\* endTimestamp = the time of the acknowledge + the stored break duration;
\* a check that completes a break leaves the default TimerState.
C8_AcknowledgeThenBreakEnds ==
  \A h \in Slots :
    LET rec == handlers[h] IN
    /\ (/\ Done(h) /\ rec.kind \in {"ackA", "button"}
        /\ PhaseOf(rec.pre.state) = "waitingForAConfirm")
       => stored[KEY_STATE] =
            <<[phase |-> "runningB",
               endTimestamp |-> <<rec.at + rec.pre.config[1].durationBSeconds[1] * 1000>>,
               paused |-> FALSE, remainingSeconds |-> <<>>]>>
    /\ (/\ Done(h) /\ rec.kind \in Checks /\ rec.wrote
        /\ PhaseOf(rec.pre.state) = "runningB")
       => stored[KEY_STATE] =
            <<[phase |-> "idle", endTimestamp |-> <<>>,
               paused |-> FALSE, remainingSeconds |-> <<>>]>>

\* a break of 2 s, acknowledged after a focus of 1 s, has been completed
C8_Witness ==
  \E h \in Slots :
    /\ Done(h) /\ handlers[h].kind \in Checks /\ handlers[h].wrote
    /\ PhaseOf(handlers[h].pre.state) = "runningB"
    /\ handlers[h].pre.writer = "acknowledge"
    /\ stored[KEY_CONFIG] = <<[durationASeconds |-> <<1>>, durationBSeconds |-> <<2>>]>>

\* C9: an acknowledge (message or button) that follows an acknowledge
\* writes nothing: TimerState and the phaseEnd alarm are as before it.
C9_SecondAcknowledgeIsNoOp ==
  \A h \in Slots :
    Done(h) /\ handlers[h].kind \in {"ackA", "button"}
            /\ handlers[h].pre.writer = "acknowledge" =>
      /\ ~handlers[h].wrote
      /\ stored[KEY_STATE] = handlers[h].pre.state
      /\ PhaseEndAlarmKept(handlers[h])

\* a button click right after an acknowledge, the phaseEnd alarm still set
C9_Witness ==
  \E h \in Slots :
    /\ Done(h) /\ handlers[h].kind = "button"
    /\ handlers[h].pre.writer = "acknowledge"
    /\ handlers[h].pre.phaseEnd # Null

\* C10: pause in Idle, in WaitingConfirm or when paused, and resume when
\* not paused, answer with an error and leave TimerState, Config and the
\* alarms as they were.
C10_RejectedPauseResumeChangeNothing ==
  \A h \in Slots :
    LET rec == handlers[h] IN
    (/\ Done(h)
     /\ \/ /\ rec.kind = "pause"
           /\ \/ PhaseOf(rec.pre.state) \in {"idle", "waitingForAConfirm"}
              \/ PausedIn(rec.pre.state)
        \/ /\ rec.kind = "resume"
           /\ ~PausedIn(rec.pre.state))
    => /\ rec.response \in {"Nothing to pause.", "Nothing to resume."}
       /\ stored[KEY_STATE] = rec.pre.state
       /\ stored[KEY_CONFIG] = rec.pre.config
       /\ PhaseEndAlarmKept(rec)
       /\ alarms[HEARTBEAT_ALARM_ID] = rec.pre.heartbeat

\* a pause in WaitingConfirm while the phaseEnd alarm is still scheduled
\* (the heartbeat completed the phase)
C10_Witness ==
  \E h \in Slots :
    /\ Done(h) /\ handlers[h].kind = "pause"
    /\ PhaseOf(handlers[h].pre.state) = "waitingForAConfirm"
    /\ handlers[h].pre.phaseEnd # Null

\* C11: a start message that arrives in any phase but Idle (RunningFocus,
\* RunningBreak, WaitingConfirm, paused or not) is answered with the error
\* "Timer already running." and changes neither the stored TimerState nor
\* the stored Config nor any alarm.
C11_StartOutsideIdleRejected ==
  \A h \in Slots :
    LET rec == handlers[h] IN
    Done(h) /\ rec.kind = "start" /\ PhaseOf(rec.pre.state) # PHASES.IDLE =>
      /\ rec.response = "Timer already running."
      /\ ~rec.wrote
      /\ stored[KEY_STATE] = rec.pre.state
      /\ stored[KEY_CONFIG] = rec.pre.config
      /\ PhaseEndAlarmKept(rec)
      /\ alarms[HEARTBEAT_ALARM_ID] = rec.pre.heartbeat

\* a start while a break is paused
C11_Witness ==
  \E h \in Slots :
    /\ Done(h) /\ handlers[h].kind = "start"
    /\ PhaseOf(handlers[h].pre.state) = PHASES.RUNNING_B
    /\ PausedIn(handlers[h].pre.state)
    /\ handlers[h].response = "Timer already running."

\* C12: a start message in Idle whose config is missing, or whose focus or
\* break duration is not a finite number or is below 1, is answered with
\* the error "Invalid durations." before anything is written: TimerState
\* and Config are as before and no alarm is scheduled.
C12_InvalidDurationsRejected ==
  \A h \in Slots :
    LET rec == handlers[h] IN
    (/\ Done(h) /\ rec.kind = "start"
     /\ PhaseOf(rec.pre.state) = PHASES.IDLE
     /\ \/ rec.config = Null
        \/ rec.config[1].durationASeconds \in BadDurations
        \/ rec.config[1].durationBSeconds \in BadDurations)
    => /\ rec.response = "Invalid durations."
       /\ ~rec.wrote
       /\ stored[KEY_STATE] = rec.pre.state
       /\ stored[KEY_CONFIG] = rec.pre.config
       /\ alarms[ALARM_ID] = rec.pre.phaseEnd
       /\ alarms[HEARTBEAT_ALARM_ID] = rec.pre.heartbeat

\* a start in Idle whose break duration is 0 and whose focus duration is good
C12_Witness ==
  \E h \in Slots :
    /\ Done(h) /\ handlers[h].kind = "start"
    /\ PhaseOf(handlers[h].pre.state) = PHASES.IDLE
    /\ handlers[h].config # Null
    /\ handlers[h].config[1].durationASeconds \in GoodDurations
    /\ handlers[h].config[1].durationBSeconds = Some(0)
    /\ handlers[h].response = "Invalid durations."

\* C13 as stated: an acknowledge (the ackA message or the notification
\* button) that arrives when the phase is not WaitingConfirm changes
\* nothing and its caller receives no error result.
C13_StrayAcknowledgeIsNotAnError ==
  \A h \in Slots :
    LET rec == handlers[h] IN
    (/\ Done(h) /\ rec.kind \in {"ackA", "button"}
     /\ PhaseOf(rec.pre.state) # PHASES.WAITING_A)
    => /\ ~rec.wrote
       /\ stored[KEY_STATE] = rec.pre.state
       /\ rec.response \in {"ok", "none"}

\* C13 amended: an acknowledge that arrives when the phase is not
\* WaitingConfirm writes nothing, requests no notification and leaves
\* TimerState, Config and the alarms as they were; the ackA message is
\* answered with the error "Invalid state.", the notification button
\* click with nothing.
C13_StrayAcknowledgeChangesNothing ==
  \A h \in Slots :
    LET rec == handlers[h] IN
    (/\ Done(h) /\ rec.kind \in {"ackA", "button"}
     /\ PhaseOf(rec.pre.state) # PHASES.WAITING_A)
    => /\ ~rec.wrote
       /\ rec.notified = "none"
       /\ stored[KEY_STATE] = rec.pre.state
       /\ stored[KEY_CONFIG] = rec.pre.config
       /\ PhaseEndAlarmKept(rec)
       /\ alarms[HEARTBEAT_ALARM_ID] = rec.pre.heartbeat
       /\ rec.response = IF rec.kind = "ackA" THEN "Invalid state." ELSE "none"

\* an ackA message in Idle, answered with the error
C13_Witness ==
  \E h \in Slots :
    /\ Done(h) /\ handlers[h].kind = "ackA"
    /\ PhaseOf(handlers[h].pre.state) = PHASES.IDLE
    /\ handlers[h].response = "Invalid state."

\* C14: the stored TimerState always has one of three shapes. Running and
\* not paused: endTimestamp is set and remainingSeconds is not. Paused:
\* remainingSeconds is set, endTimestamp is not, and the phase is
\* RunningFocus or RunningBreak. Idle or WaitingConfirm: neither is set
\* and the state is not paused.
C14_StoredStateShape ==
  LET state == getState IN
  /\ state.phase \in {PHASES.IDLE, PHASES.RUNNING_A, PHASES.WAITING_A, PHASES.RUNNING_B}
  /\ IsRunning(state) /\ ~IsPaused(state) =>
       state.endTimestamp # Null /\ RemainingOf(state) = Null
  /\ IsPaused(state) =>
       /\ IsRunning(state)
       /\ RemainingOf(state) # Null
       /\ state.endTimestamp = Null
  /\ ~IsRunning(state) =>
       /\ ~IsPaused(state)
       /\ state.endTimestamp = Null
       /\ RemainingOf(state) = Null

\* a paused break with one second left is stored (a running focus, a
\* WaitingConfirm and a running break were stored before it)
C14_Witness ==
  /\ getState.phase = PHASES.RUNNING_B
  /\ IsPaused(getState)
  /\ RemainingOf(getState) = Some(1)

\* C15: an accepted pause stores remainingSeconds >= 1, also when it
\* arrives at or after endTimestamp and no completion check has run; and
\* a resume that finds the state a pause wrote is accepted.
C15_PauseKeepsAtLeastOneSecond ==
  \A h \in Slots :
    LET rec == handlers[h] IN
    /\ Done(h) /\ rec.kind = "pause" /\ rec.response = "ok" =>
         /\ rec.wrote
         /\ IsPaused(getState)
         /\ RemainingOf(getState) # Null
         /\ RemainingOf(getState)[1] >= 1
    /\ Done(h) /\ rec.kind = "resume" /\ rec.pre.writer = "pause" =>
         /\ rec.response = "ok"
         /\ rec.wrote

\* a resume is accepted after a pause that came when endTimestamp had passed
C15_Witness ==
  \E h \in Slots :
    /\ Done(h) /\ handlers[h].kind = "resume"
    /\ handlers[h].pre.writer = "pause"
    /\ history.pause # Null
    /\ history.pause[1].at >= history.pause[1].endTimestamp
    /\ handlers[h].response = "ok"

C17_OkOnlyAfterWrite ==
  \A h \in Slots :
    LET rec == handlers[h]
        state == getState IN
    rec.response = "ok" =>
      /\ rec.kind \in {"start", "ackA", "pause", "resume", "cancel"}
      /\ rec.wrote
      /\ rec.kind = "start"  => state.phase = PHASES.RUNNING_A /\ ~IsPaused(state)
      /\ rec.kind = "ackA"   => state.phase = PHASES.RUNNING_B /\ ~IsPaused(state)
      /\ rec.kind = "pause"  => IsPaused(state)
      /\ rec.kind = "resume" => IsRunning(state) /\ ~IsPaused(state)
      /\ rec.kind = "cancel" => state = DEFAULT_STATE

\* a cancel of a paused focus has been answered
C17_Witness ==
  \E h \in Slots :
    /\ Done(h) /\ handlers[h].kind = "cancel"
    /\ PausedIn(handlers[h].pre.state)
    /\ handlers[h].response = "ok"

\* C18: Config does not change during a run. The stored Config (the
\* extension's storage, the iOS app's UserDefaults) is replaced only while
\* the stored phase is Idle, and an acknowledge starts the break with the
\* break duration of the stored Config, which is then the one given at
\* start.
C18_ConfigImmutableDuringRun ==
  [][/\ stored'[KEY_CONFIG] # stored[KEY_CONFIG] =>
          PhaseOf(stored[KEY_STATE]) = PHASES.IDLE
     /\ \A h \in Slots :
          handlers[h].pc = "ackGuard" /\ handlers'[h].pc = "startPhase" =>
            handlers'[h].seconds = getConfig.durationBSeconds[1]
     /\ defaults'.config # defaults.config =>
          defaults.state = Null \/ defaults.state[1].phase = Phase.idle
     /\ viewModel.state.phase = Phase.waitingForConfirm
          /\ viewModel'.state.phase = Phase.runningBreak =>
            viewModel'.state.endDate =
              Some(now + defaults.config[1].breakMinutes * MsPerMinute)
    ]_vars

\* C19: while a phase is stored as running the heartbeat alarm exists and
\* its next firing is at most one heartbeat period away; and a heartbeat
\* listener that starts when an unpaused running phase is past its
\* endTimestamp (the phaseEnd alarm delivered or not) completes the phase:
\* RunningFocus becomes WaitingConfirm, RunningBreak becomes Idle, and the
\* notification is requested.
C19_HeartbeatCompletesOverduePhase ==
  /\ IsRunning(getState) =>
       /\ alarms[HEARTBEAT_ALARM_ID] # Null
       /\ alarms[HEARTBEAT_ALARM_ID][1] <= now + HeartbeatPeriodMs
  /\ \A h \in Slots :
       LET rec == handlers[h] IN
       Done(h) /\ rec.kind = "heartbeat" /\ rec.pre.due =>
         /\ rec.wrote
         /\ rec.notified # "none"
         /\ PhaseOf(stored[KEY_STATE]) =
              IF PhaseOf(rec.pre.state) = PHASES.RUNNING_A
              THEN PHASES.WAITING_A ELSE PHASES.IDLE

\* a heartbeat has completed a focus whose phaseEnd alarm was never
\* delivered: it is still scheduled when the heartbeat has finished
C19_Witness ==
  \E h \in Slots :
    /\ Done(h) /\ handlers[h].kind = "heartbeat"
    /\ handlers[h].pre.due
    /\ PhaseOf(handlers[h].pre.state) = PHASES.RUNNING_A
    /\ handlers[h].pre.alarmEvents = 0
    /\ alarms[ALARM_ID] # Null
    /\ PhaseOf(stored[KEY_STATE]) = PHASES.WAITING_A

\* The last instant the clock of the model reaches
Horizon == MaxSleeps * HeartbeatPeriodMs + MaxTicks * TickMs

\* The stored phase is running and not paused, and its endTimestamp is an
\* instant the clock reaches
RunningUntilHorizon(phase) ==
  /\ getState.phase = phase
  /\ ~IsPaused(getState)
  /\ Truthy(getState.endTimestamp)
  /\ getState.endTimestamp[1] <= Horizon

\* C20: where due alarms are delivered, listeners run on and time passes,
\* a RunningFocus whose endTimestamp time reaches leads to WaitingConfirm
\* unless it is paused or cancelled first, and a RunningBreak leads to
\* Idle unless it is paused first, whatever wake-ups were consumed before
\* and however often the worker restarted.
C20_RunningPhaseEventuallyCompletes ==
  /\ RunningUntilHorizon(PHASES.RUNNING_A) ~>
       \/ getState.phase = PHASES.WAITING_A
       \/ getState.phase = PHASES.IDLE
       \/ IsPaused(getState)
  /\ RunningUntilHorizon(PHASES.RUNNING_B) ~>
       \/ getState.phase = PHASES.IDLE
       \/ IsPaused(getState)

\* the worker restarted after the focus had run past its endTimestamp with
\* no wake-up handled (the phaseEnd alarm is still scheduled), and
\* initialize has completed the focus
C20_Witness ==
  \E h \in Slots :
    /\ Done(h) /\ handlers[h].kind = "initialize"
    /\ handlers[h].pre.due
    /\ handlers[h].pre.phaseEnd # Null
    /\ handlers[h].wrote
    /\ PhaseOf(stored[KEY_STATE]) = PHASES.WAITING_A

\* C21: a cancel message is accepted in every phase (Idle, running,
\* paused, WaitingConfirm): it is answered with ok = true, the stored
\* TimerState is then the default (phase Idle, endTimestamp null, not
\* paused, remainingSeconds null) and no phaseEnd alarm is scheduled.
C21_CancelAlwaysResets ==
  \A h \in Slots :
    LET rec == handlers[h] IN
    Done(h) /\ rec.kind = "cancel" =>
      /\ rec.response = "ok"
      /\ rec.wrote
      /\ stored[KEY_STATE] = Some(DEFAULT_STATE)
      /\ stored[KEY_CONFIG] = rec.pre.config
      /\ alarms[ALARM_ID] = Null

\* a cancel of a running break whose phaseEnd alarm was scheduled
C21_Witness ==
  \E h \in Slots :
    /\ Done(h) /\ handlers[h].kind = "cancel"
    /\ PhaseOf(handlers[h].pre.state) = PHASES.RUNNING_B
    /\ ~PausedIn(handlers[h].pre.state)
    /\ handlers[h].pre.phaseEnd # Null
    /\ alarms[ALARM_ID] = Null

\* C22: a notification request that fails changes nothing else. The
\* listener whose request failed has finished, the transition it wrote
\* is stored exactly as when the request succeeds (WaitingConfirm after a
\* focus, the default state after a break), and the completion was
\* requested once: at no time are there more notification requests than
\* completions.
C22_FailedNotificationIsNotRetried ==
  /\ owed.focus \in {0, 1} /\ owed.break \in {0, 1}
  /\ \A h \in Slots :
       LET rec == handlers[h] IN
       rec.notified # "none" =>
            /\ Done(h)
            /\ rec.wrote
            /\ owed = [focus |-> 0, break |-> 0]
            /\ stored[KEY_STATE] =
                 IF rec.phase = PHASES.WAITING_A
                 THEN Some(WaitingState(PHASES.WAITING_A))
                 ELSE Some(DEFAULT_STATE)

\* the notification of a finished break, requested by a heartbeat, failed
C22_Witness ==
  \E h \in Slots :
    /\ Done(h) /\ handlers[h].kind = "heartbeat"
    /\ handlers[h].notified = "failed"
    /\ PhaseOf(handlers[h].pre.state) = PHASES.RUNNING_B
    /\ stored[KEY_STATE] = Some(DEFAULT_STATE)

\* C23: a completion check (phaseEnd alarm, heartbeat, initialize) that
\* ends the stored phase, having just read that very state, ends a phase
\* that is running, not paused and past its endTimestamp.
C23_OnlyDuePhaseIsEnded ==
  [][\A h \in Slots :
       (/\ Quiet
        /\ handlers[h].kind \in Checks
        /\ handlers[h].pc \in {"completion", "writeIdle"}
        /\ handlers'[h] # handlers[h]
        /\ stored'[KEY_STATE] # stored[KEY_STATE]
        /\ handlers[h].state = getState)
       => /\ IsRunning(getState)
          /\ ~IsPaused(getState)
          /\ EndPassed(getState, now)]_vars


\* C24: in the iOS TimerViewModel no time-triggered completion
\* notification is pending while the phase is paused or Idle, so pause
\* and cancel leave none to be delivered.
C24_PauseAndCancelUnschedule ==
  viewModel.state.phase \in {Phase.pausedFocus, Phase.pausedBreak, Phase.idle}
    => center.pending = Null


\* The step is taken by a listener of one of these kinds
StepOf(kinds) ==
  \E h \in Slots : handlers'[h] # handlers[h] /\ handlers[h].kind \in kinds

\* C25: the stored phase leaves WaitingConfirm only by an acknowledge
\* (message or notification button), to an unpaused RunningBreak, or by a
\* cancel, to Idle; and RunningBreak is entered only from WaitingConfirm
\* by an acknowledge, and un-paused only by a resume.
C25_BreakOnlyAfterAcknowledge ==
  [][LET before == stored[KEY_STATE]
         after == stored'[KEY_STATE] IN
     /\ (PhaseOf(before) = PHASES.WAITING_A /\ after # before) =>
          \/ /\ StepOf({"ackA", "button"})
             /\ PhaseOf(after) = PHASES.RUNNING_B
             /\ ~PausedIn(after)
          \/ /\ StepOf({"cancel"})
             /\ after = Some(DEFAULT_STATE)
     /\ (PhaseOf(after) = PHASES.RUNNING_B /\ PhaseOf(before) # PHASES.RUNNING_B) =>
          /\ PhaseOf(before) = PHASES.WAITING_A
          /\ StepOf({"ackA", "button"})
     /\ (/\ PhaseOf(after) = PHASES.RUNNING_B /\ ~PausedIn(after)
         /\ PhaseOf(before) = PHASES.RUNNING_B /\ PausedIn(before)) =>
          StepOf({"resume"})]_vars

\* A break was started by the notification's button and, paused, resumed
C25_Witness ==
  /\ \E h \in Slots :
       /\ Done(h)
       /\ handlers[h].kind = "resume"
       /\ handlers[h].wrote
       /\ PhaseOf(handlers[h].pre.state) = PHASES.RUNNING_B
       /\ PausedIn(handlers[h].pre.state)
  /\ PhaseOf(stored[KEY_STATE]) = PHASES.RUNNING_B
  /\ ~PausedIn(stored[KEY_STATE])


\* C26: whenever no listener is running or waiting to run and the stored
\* state is a running, unpaused phase, the phaseEnd alarm is scheduled at
\* exactly the stored endTimestamp; and once an accepted pause or a cancel
\* has finished no phaseEnd alarm is scheduled.
C26_AlarmMatchesEndTimestamp ==
  /\ (/\ NoneExecuting
      /\ alarmEvents = 0
      /\ IsRunning(getState)
      /\ ~IsPaused(getState))
     => alarms[ALARM_ID] = getState.endTimestamp
  /\ \A h \in Slots :
       LET rec == handlers[h] IN
       (Done(h) /\ rec.kind \in {"pause", "cancel"} /\ rec.wrote)
         => alarms[ALARM_ID] = Null

\* A phaseEnd event that came early (the phase was paused and resumed
\* after the alarm had fired) has re-scheduled the alarm
C26_Witness ==
  \E h \in Slots :
    LET rec == handlers[h] IN
    /\ Done(h)
    /\ rec.kind = "alarm"
    /\ ~rec.wrote
    /\ alarmEvents = 0
    /\ IsRunning(getState)
    /\ ~IsPaused(getState)
    /\ ~EndPassed(getState, now)
    /\ alarms[ALARM_ID] = getState.endTimestamp

====
